---- MODULE Spec2Model ----
(***************************************************************************)
(* Model of the batching / retry queue of cloudwatch-winston               *)
(* (src/index.js, function transport and the onFatalError closure of the   *)
(* CloudWatchTransport constructor).                                        *)
(*                                                                         *)
(* A text is modelled by its UTF-8 shape: n characters of w bytes each,    *)
(* followed by sfx bytes of appended (ASCII) suffix; marker tells whether  *)
(* the text is the queue overrun message.  Byte sizes are the real ones.   *)
(* A record of a batch is [id, message]: id numbers the admitted records   *)
(* and stands for the timestamp, which no step of the code reads.          *)
(*                                                                         *)
(* The delivery loop is the sequence of invocations of processQueue that   *)
(* are suspended at a remote call, and the number of armed timers; a step  *)
(* is the synchronous code between two awaits.                             *)
(***************************************************************************)
EXTENDS Integers, Sequences, FiniteSets, TLC

\* ---------------------------------------------------------------- bounds
\* number of log() calls that get past the "closed" check and are admitted
MaxLogs == 4
\* number of remote calls that end with an exception
MaxFailures == 2

\* the item limit of a batch.  The program's value is 10000 (src/index.js:17);
\* it is scaled down so that a batch can be filled within MaxLogs records.
\* With the real limits a batch is never sealed by the first record after
\* the one that opened it (two records are fewer than 10000 and weigh less
\* than 1048576 - 256000 bytes); every value >= 3 keeps that, 2 would not.
maxBatchNumItems == 3

\* the byte arithmetic of log() is also run with its own limits: enough
\* records in one batch for the byte limit to seal it before the item limit
BytesMaxLogs == 5
BytesBatchNumItems == 5

\* ------------------------------------------------------ program constants
maxMessageNumBytes == 256000
maxBatchNumBytes == 1048576

\* the texts formatLog returns: 10 ASCII bytes, or 300000 bytes of
\* three-byte characters
Messages == { [w |-> 1, n |-> 10,     sfx |-> 0, marker |-> FALSE],
              [w |-> 3, n |-> 100000, sfx |-> 0, marker |-> FALSE] }

\* the formatters tried: each returns one of the texts for every entry
FormatLogs == { {m} : m \in Messages }

\* a formatter for the byte arithmetic: 24580 ASCII bytes for some entries,
\* 300000 bytes of three-byte characters for the others
BytesFormatLogs == { { [w |-> 1, n |-> 24580,  sfx |-> 0, marker |-> FALSE],
                       [w |-> 3, n |-> 100000, sfx |-> 0, marker |-> FALSE] } }

\* the pairs <<shouldCreateLogGroup, shouldCreateLogStream>> tried
Provisioning == { <<FALSE, FALSE>>, <<TRUE, TRUE>> }

\* values of the option queueOverrunMessage: '' and 'Log queue overrun'
OverrunMessages == { [w |-> 1, n |-> 0,  sfx |-> 0, marker |-> TRUE],
                     [w |-> 1, n |-> 17, sfx |-> 0, marker |-> TRUE] }

\* the pair <<truncatedMessageSuffix, queueOverrunMessage>> for the byte
\* arithmetic: ' TRUNCATED' with an overrun message of 300000 bytes of
\* four-byte characters
BytesTexts == { <<10, [w |-> 4, n |-> 75000, sfx |-> 0, marker |-> TRUE]>> }

\* byte lengths of the option truncatedMessageSuffix: '' and ' TRUNCATED'
SuffixSizes == {0, 10}

\* results of client.send as the code tells them apart
CreateGroupOutcomes  == {"ok", "ResourceAlreadyExistsException", "InvalidParameterException", "NetworkError"}
CreateStreamOutcomes == {"ok", "ResourceAlreadyExistsException", "ResourceNotFoundException", "NetworkError"}
PutOutcomes == {"ok", "rejectedLogEventsInfo", "DataAlreadyAcceptedException",
                "UnrecognizedClientException", "NetworkError"}

VARIABLES
  \* options (fixed at construction)
  shouldCreateLogGroup, shouldCreateLogStream, maxQueuedBatches,
  abandonQueueOnClose, truncatedMessageSuffix, queueOverrunMessage,
  formatLog,      \* the set of texts formatLog returns
  piped,          \* the Transport is piped from a winston logger
  \* state of transport()
  batches, currentBatchTotalMessageSize, stopped, createdLogGroup,
  createdLogStream, queueOverrun, callbacks,
  \* the delivery loop
  procs,          \* the suspended invocations of processQueue, oldest first:
                  \* [pc |-> "group" | "stream" | "put" (the call awaited),
                  \*  batch |-> the local variable batch]
  timers,         \* number of armed timers that will call processQueue
  timeout,        \* the timer whose handle the variable timeout holds is armed
  \* observations
  admitted,       \* ids of the records appended to a batch, in order
  accepted,       \* ids of the records of the batches PutLogEvents returned for
  resolved,       \* ids whose log() promise was resolved
  errors,         \* calls of onError, per kind of error
  fatalCalls,     \* calls of onFatalError
  failures,       \* remote calls that ended with an exception
  lastLog,        \* how the latest log() call ended
  lastFailed      \* <<payload>> of the PutLogEvents that last failed as retryable

opts == <<shouldCreateLogGroup, shouldCreateLogStream, maxQueuedBatches,
          abandonQueueOnClose, truncatedMessageSuffix, queueOverrunMessage,
          formatLog, piped>>
core == <<batches, currentBatchTotalMessageSize, stopped, createdLogGroup,
          createdLogStream, queueOverrun, callbacks>>
loop == <<procs, timers, timeout>>

obs  == <<admitted, accepted, resolved, errors, fatalCalls, failures, lastLog,
          lastFailed>>
vars == <<opts, core, loop, obs>>

\* where the delivery loop is: the call its oldest invocation awaits, else
\* "timer" when a timer is armed, else "off"
pc == IF procs # <<>> THEN procs[1].pc ELSE IF timers > 0 THEN "timer" ELSE "off"
\* the batch the oldest invocation holds: <<the batch>>, or <<>> when none runs
batch == IF procs # <<>> THEN <<procs[1].batch>> ELSE <<>>

ErrorKinds == {"retry", "rejected", "queuefull", "truncating", "fatal"}

\* ---------------------------------------------------------------- helpers
getStringBytesSize(msg) == msg.w * msg.n + msg.sfx

\* actualMaxMessageNumBytes that reserves the bytes of the default suffix
actualMaxMessageNumBytes_DefaultSuffix == maxMessageNumBytes - 10

\* the bytes left for the text of a record once the suffix is reserved
actualMaxMessageNumBytes == maxMessageNumBytes - truncatedMessageSuffix

\* truncate that takes len for a number of characters
truncate_Chars(msg, len) ==
  IF getStringBytesSize(msg) <= len THEN msg
  ELSE [msg EXCEPT !.n = IF len <= 0 THEN 0 ELSE IF len < msg.n THEN len ELSE msg.n,
                   !.sfx = 0]

\* truncate-utf8-bytes: the longest prefix of whole characters within len bytes
truncate(msg, len) ==
  IF getStringBytesSize(msg) <= len THEN msg
  ELSE [msg EXCEPT !.n = IF len <= 0 THEN 0 ELSE len \div msg.w, !.sfx = 0]

Ids(b) == [i \in 1..Len(b) |-> b[i].id]

RECURSIVE Flatten(_)
Flatten(bs) == IF bs = <<>> THEN <<>> ELSE Ids(Head(bs)) \o Flatten(Tail(bs))

IsPrefix(s, t) == Len(s) <= Len(t) /\ SubSeq(t, 1, Len(s)) = s

Bump(kinds) == [k \in ErrorKinds |-> errors[k] + (IF k \in kinds THEN 1 ELSE 0)]

\* ------------------------------------------------------------------- Init
\* the state transport() builds, after its first call of processQueue
Start ==
  /\ batches = <<>>
  /\ currentBatchTotalMessageSize = 0
  /\ stopped = FALSE
  /\ createdLogGroup = FALSE
  /\ createdLogStream = FALSE
  /\ queueOverrun = FALSE
  /\ callbacks = {}
  /\ procs = <<>>
  /\ timers = 1
  /\ timeout = TRUE
  /\ admitted = <<>>
  /\ accepted = <<>>
  /\ resolved = {}
  /\ errors = [k \in ErrorKinds |-> 0]
  /\ fatalCalls = 0
  /\ failures = 0
  /\ lastLog = "none"
  /\ lastFailed = <<>>

Init ==
  /\ \E p \in Provisioning : shouldCreateLogGroup = p[1] /\ shouldCreateLogStream = p[2]
  /\ formatLog \in FormatLogs
  /\ maxQueuedBatches \in 1..3
  /\ abandonQueueOnClose \in BOOLEAN
  /\ truncatedMessageSuffix \in SuffixSizes
  /\ queueOverrunMessage \in OverrunMessages
  /\ piped \in BOOLEAN
  /\ Start

\* the options under which the byte arithmetic of log() is run
InitBytes ==
  /\ shouldCreateLogGroup = FALSE /\ shouldCreateLogStream = FALSE
  /\ formatLog \in BytesFormatLogs
  /\ maxQueuedBatches = 3
  /\ abandonQueueOnClose = TRUE
  /\ \E t \in BytesTexts : truncatedMessageSuffix = t[1] /\ queueOverrunMessage = t[2]
  /\ piped = FALSE
  /\ Start

\* -------------------------------------------------- pieces of processQueue
\* callCallbacksIfEmptyQueue without the test of the queue length
callCallbacksIfEmptyQueue_Always(bs, cbs, q) ==
  [callbacks |-> {}, resolved |-> resolved \cup cbs, queueOverrun |-> FALSE]

\* callCallbacksIfEmptyQueue without callbacks.clear()
callCallbacksIfEmptyQueue_NoClear(bs, cbs, q) ==
  IF bs = <<>>
    THEN [callbacks |-> cbs, resolved |-> resolved \cup cbs, queueOverrun |-> FALSE]
    ELSE [callbacks |-> cbs, resolved |-> resolved, queueOverrun |-> q]

\* callCallbacksIfEmptyQueue, applied to the queue bs, the waiters cbs and the
\* overrun flag q: the waiters left, the promises resolved, the flag
callCallbacksIfEmptyQueue(bs, cbs, q) ==
  IF bs = <<>>
    THEN [callbacks |-> {}, resolved |-> resolved \cup cbs, queueOverrun |-> FALSE]
    ELSE [callbacks |-> cbs, resolved |-> resolved, queueOverrun |-> q]

\* the finally block of processQueue without the test of stopped
Finally_Always(stp) == "timer"

\* the finally block of processQueue: where the loop is left, given stopped
Finally(stp) == IF ~stp \/ ~abandonQueueOnClose THEN "timer" ELSE "off"

\* the remote call processQueue issues next, given the two provisioning flags
NextCall(group, stream) ==
  IF ~group /\ shouldCreateLogGroup THEN "group"
  ELSE IF ~stream /\ shouldCreateLogStream THEN "stream"
  ELSE "put"

\* how the catch blocks of createLogGroup / createLogStream / PutLogEvents
\* leave: "done" (no exception), "fatal" (FatalError) or "retry" (err rethrown)
CreateLogGroupResult(o) ==
  IF o = "ok" THEN "done"
  ELSE IF o = "ResourceAlreadyExistsException" THEN "retry"   \* "OK" branch, then throw err
  ELSE IF o \in {"InvalidParameterException", "LimitExceededException", "UnrecognizedClientException"}
    THEN "fatal"
  ELSE "retry"

CreateLogStreamResult(o) ==
  IF o = "ok" THEN "done"
  ELSE IF o = "ResourceAlreadyExistsException" THEN "retry"   \* "OK" branch, then throw err
  ELSE IF o \in {"InvalidParameterException", "ResourceNotFoundException", "UnrecognizedClientException"}
    THEN "fatal"
  ELSE "retry"

\* the PutLogEvents try/catch with a partial rejection thrown as an error
PutLogEventsResult_RejectedThrows(o) ==
  IF o = "ok" THEN "done"
  ELSE IF o \in {"InvalidParameterException", "InvalidSequenceTokenException",
                 "ResourceNotFoundException", "UnrecognizedClientException"}
    THEN "fatal"
  ELSE "retry"

PutLogEventsResult(o) ==
  IF o \in {"ok", "rejectedLogEventsInfo"} THEN "done"
  ELSE IF o = "DataAlreadyAcceptedException" THEN "retry"     \* "OK" branch, then throw err
  ELSE IF o \in {"InvalidParameterException", "InvalidSequenceTokenException",
                 "ResourceNotFoundException", "UnrecognizedClientException"}
    THEN "fatal"
  ELSE "retry"

\* the invocations left when invocation i returns
Without(i) == SubSeq(procs, 1, i - 1) \o SubSeq(procs, i + 1, Len(procs))

\* invocation i returns: the finally block arms a timer or not, given stopped
Return(i, stp) ==
  /\ procs' = Without(i)
  /\ timers' = timers + (IF Finally(stp) = "timer" THEN 1 ELSE 0)
  /\ timeout' = (timeout \/ Finally(stp) = "timer")

\* the outer catch of processQueue for a FatalError: onFatalError(err.cause),
\* return, finally.  onFatalError emits 'error' on the Transport, which makes
\* a winston logger it is piped from close it (stopped = true, and
\* clearTimeout of a handle whose timer has fired), and then calls onError.
CatchFatal(i) ==
  /\ fatalCalls' = fatalCalls + 1
  /\ stopped' = (stopped \/ piped)
  /\ errors' = Bump({"fatal"})
  /\ LET cleared == piped /\ timeout IN   \* close() cancelled an armed timer
       /\ procs' = Without(i)
       /\ timers' = timers - (IF cleared THEN 1 ELSE 0)
                            + (IF Finally(stopped') = "timer" THEN 1 ELSE 0)
       /\ timeout' = ((timeout /\ ~piped) \/ Finally(stopped') = "timer")
  /\ lastFailed' = <<>>
  /\ UNCHANGED <<batches, accepted>>

\* CatchRetry with the batch put back at the end of the queue (push for unshift)
CatchRetry_Push(i) ==
  /\ errors' = Bump({"retry"})
  /\ batches' = Append(batches, procs[i].batch)
  /\ Return(i, stopped)
  /\ lastFailed' = IF procs[i].pc = "put" THEN <<procs[i].batch>> ELSE <<>>
  /\ UNCHANGED <<stopped, fatalCalls, accepted>>

\* CatchRetry without the unshift: the failed batch is not put back
CatchRetry_Drop(i) ==
  /\ errors' = Bump({"retry"})
  /\ batches' = batches
  /\ Return(i, stopped)
  /\ lastFailed' = IF procs[i].pc = "put" THEN <<procs[i].batch>> ELSE <<>>
  /\ UNCHANGED <<stopped, fatalCalls, accepted>>

\* the outer catch of processQueue for any other error: onError(err),
\* batches.unshift(batch), finally
CatchRetry(i) ==
  /\ errors' = Bump({"retry"})
  /\ batches' = <<procs[i].batch>> \o batches
  /\ Return(i, stopped)
  /\ lastFailed' = IF procs[i].pc = "put" THEN <<procs[i].batch>> ELSE <<>>
  /\ UNCHANGED <<stopped, fatalCalls, accepted>>

\* ---------------------------------------------------------------- actions
\* an armed timer fires: processQueue up to its first await, or to its end.
\* own tells whether the timer is the one the variable timeout holds.
Tick ==
  /\ timers > 0
  /\ LET c == callCallbacksIfEmptyQueue(batches, callbacks, queueOverrun) IN
       /\ callbacks' = c.callbacks
       /\ resolved' = c.resolved
       /\ queueOverrun' = c.queueOverrun
  /\ \E own \in BOOLEAN :
       /\ own => timeout
       /\ ~own => timers > (IF timeout THEN 1 ELSE 0)
       /\ IF batches = <<>>
            THEN /\ timers' = timers - 1 + (IF Finally(stopped) = "timer" THEN 1 ELSE 0)
                 /\ timeout' = ((timeout /\ ~own) \/ Finally(stopped) = "timer")
                 /\ UNCHANGED <<batches, procs>>
            ELSE /\ procs' = Append(procs, [pc |-> NextCall(createdLogGroup, createdLogStream),
                                           batch |-> Head(batches)])
                 /\ batches' = Tail(batches)
                 /\ timers' = timers - 1
                 /\ timeout' = (timeout /\ ~own)
  /\ UNCHANGED <<opts, currentBatchTotalMessageSize, stopped, createdLogGroup,
                 createdLogStream, admitted, accepted, errors, fatalCalls,
                 failures, lastLog, lastFailed>>

\* client.send(CreateLogGroupCommand) of invocation i settles with outcome o
CreateLogGroupReplyTo(i, o) ==
  /\ procs[i].pc = "group"
  /\ o = "ok" \/ failures < MaxFailures
  /\ failures' = IF o = "ok" THEN failures ELSE failures + 1
  /\ CASE CreateLogGroupResult(o) = "done" ->
            /\ createdLogGroup' = TRUE
            /\ procs' = [procs EXCEPT ![i].pc = NextCall(TRUE, createdLogStream)]
            /\ UNCHANGED <<batches, timers, timeout, stopped, errors, fatalCalls,
                           accepted, lastFailed>>
       [] CreateLogGroupResult(o) = "fatal" ->
            CatchFatal(i) /\ UNCHANGED createdLogGroup
       [] CreateLogGroupResult(o) = "retry" ->
            CatchRetry(i) /\ UNCHANGED createdLogGroup
  /\ UNCHANGED <<opts, currentBatchTotalMessageSize, createdLogStream, queueOverrun,
                 callbacks, admitted, resolved, lastLog>>

CreateLogGroupReply(o) == \E i \in 1..Len(procs) : CreateLogGroupReplyTo(i, o)

\* client.send(CreateLogStreamCommand) of invocation i settles with outcome o
CreateLogStreamReplyTo(i, o) ==
  /\ procs[i].pc = "stream"
  /\ o = "ok" \/ failures < MaxFailures
  /\ failures' = IF o = "ok" THEN failures ELSE failures + 1
  /\ CASE CreateLogStreamResult(o) = "done" ->
            /\ createdLogStream' = TRUE
            /\ procs' = [procs EXCEPT ![i].pc = "put"]
            /\ UNCHANGED <<batches, timers, timeout, stopped, errors, fatalCalls,
                           accepted, lastFailed>>
       [] CreateLogStreamResult(o) = "fatal" ->
            CatchFatal(i) /\ UNCHANGED createdLogStream
       [] CreateLogStreamResult(o) = "retry" ->
            CatchRetry(i) /\ UNCHANGED createdLogStream
  /\ UNCHANGED <<opts, currentBatchTotalMessageSize, createdLogGroup, queueOverrun,
                 callbacks, admitted, resolved, lastLog>>

CreateLogStreamReply(o) == \E i \in 1..Len(procs) : CreateLogStreamReplyTo(i, o)

\* client.send(PutLogEventsCommand) of invocation i settles with outcome o
PutLogEventsReplyTo(i, o) ==
  /\ procs[i].pc = "put"
  /\ o \in {"ok", "rejectedLogEventsInfo"} \/ failures < MaxFailures
  /\ failures' = IF o \in {"ok", "rejectedLogEventsInfo"} THEN failures ELSE failures + 1
  /\ CASE PutLogEventsResult(o) = "done" ->
            /\ accepted' = accepted \o Ids(procs[i].batch)
            /\ errors' = IF o = "rejectedLogEventsInfo" THEN Bump({"rejected"}) ELSE errors
            /\ Return(i, stopped)
            /\ lastFailed' = <<>>
            /\ UNCHANGED <<batches, stopped, fatalCalls>>
       [] PutLogEventsResult(o) = "fatal" -> CatchFatal(i)
       [] PutLogEventsResult(o) = "retry" -> CatchRetry(i)
  /\ UNCHANGED <<opts, currentBatchTotalMessageSize, createdLogGroup, createdLogStream,
                 queueOverrun, callbacks, admitted, resolved, lastLog>>

PutLogEventsReply(o) == \E i \in 1..Len(procs) : PutLogEventsReplyTo(i, o)

\* the overrun test of log with the reserved slot forgotten
QueueFull_OffByOne == Len(batches) >= maxQueuedBatches

\* the overrun test of log: "this is just to prevent memory overrun"
QueueFull == Len(batches) >= maxQueuedBatches - 1

\* logOutcome without the test of stopped
logOutcome_NoStoppedCheck ==
  IF QueueFull
    THEN IF queueOverrun \/ queueOverrunMessage.n = 0 THEN "full" ELSE "marker"
    ELSE "admitted"

\* logOutcome without the test of queueOverrun
logOutcome_NoOverrunFlag ==
  IF stopped THEN "closed"
  ELSE IF QueueFull
    THEN IF queueOverrunMessage.n = 0 THEN "full" ELSE "marker"
    ELSE "admitted"

\* how a log() call ends: it throws 'Tried to log after transport closed'
\* ("closed") or 'Batch queue is full, skipping log message' ("full"), or it
\* appends the overrun message ("marker") or the text ("admitted")
logOutcome ==
  IF stopped THEN "closed"
  ELSE IF QueueFull
    THEN IF queueOverrun \/ queueOverrunMessage.n = 0 THEN "full" ELSE "marker"
    ELSE "admitted"

\* "need to start a new batch?" with no bytes reserved for the next record
NewBatch_NoReserve(len, size, maxItems) ==
  len >= maxItems \/ size >= maxBatchNumBytes

\* "need to start a new batch?": the batch has len records weighing size bytes
NewBatch(len, size, maxItems) ==
  LET maxBatchNumItemsExceeded == len >= maxItems
      maxBatchNumBytesExceeded == size >= maxBatchNumBytes - actualMaxMessageNumBytes
  IN  maxBatchNumItemsExceeded \/ maxBatchNumBytesExceeded

\* log(timestamp, info), where formatLog(info) is the text msg, with the
\* item limit maxItems and at most maxLogs records admitted in a run
logWith(msg, maxItems, maxLogs) ==
  LET full == logOutcome = "marker"
      message1 == IF full THEN queueOverrunMessage ELSE msg
      tooLong == getStringBytesSize(message1) > actualMaxMessageNumBytes
      message == IF tooLong
                   THEN [truncate(message1, actualMaxMessageNumBytes)
                           EXCEPT !.sfx = truncatedMessageSuffix]
                   ELSE message1
      messageBytesSize == getStringBytesSize(message)
      id == Len(admitted) + 1
      bs1 == IF batches = <<>> THEN << <<>> >> ELSE batches
      size1 == IF batches = <<>> THEN 0 ELSE currentBatchTotalMessageSize
      last == Append(bs1[Len(bs1)], [id |-> id, message |-> message])
      bs2 == [bs1 EXCEPT ![Len(bs1)] = last]
      size2 == size1 + messageBytesSize
      newBatch == NewBatch(Len(last), size2, maxItems)
      bs3 == IF newBatch THEN Append(bs2, <<>>) ELSE bs2
      c == callCallbacksIfEmptyQueue(bs3, callbacks \cup {id}, queueOverrun \/ full)
  IN
  IF logOutcome \in {"closed", "full"} THEN
    /\ lastLog' = logOutcome
    /\ UNCHANGED <<opts, core, loop, admitted, accepted, resolved, errors,
                   fatalCalls, failures, lastFailed>>
  ELSE
    /\ Len(admitted) < maxLogs
    /\ errors' = Bump((IF full THEN {"queuefull"} ELSE {}) \cup
                      (IF tooLong THEN {"truncating"} ELSE {}))
    /\ batches' = bs3
    /\ currentBatchTotalMessageSize' = IF newBatch THEN 0 ELSE size2
    /\ callbacks' = c.callbacks
    /\ resolved' = c.resolved
    /\ queueOverrun' = c.queueOverrun
    /\ admitted' = Append(admitted, id)
    /\ lastLog' = logOutcome
    /\ UNCHANGED <<opts, stopped, createdLogGroup, createdLogStream, loop,
                   accepted, fatalCalls, failures, lastFailed>>

log(msg) == logWith(msg, maxBatchNumItems, MaxLogs)

\* log() under the limits of the byte arithmetic
logBytes(msg) == logWith(msg, BytesBatchNumItems, BytesMaxLogs)

\* close() that also schedules a last processQueue to flush the queue
close_Flush ==
  /\ stopped' = TRUE
  /\ timers' = (IF timeout THEN timers - 1 ELSE timers) + 1
  /\ timeout' = TRUE
  /\ UNCHANGED <<opts, batches, currentBatchTotalMessageSize, createdLogGroup,
                 createdLogStream, queueOverrun, callbacks, procs, obs>>

\* close(): stopped = true; clearTimeout(timeout) cancels the timer the
\* variable timeout holds, when it is still armed
close ==
  /\ stopped' = TRUE
  /\ timers' = IF timeout THEN timers - 1 ELSE timers
  /\ timeout' = FALSE
  /\ UNCHANGED <<opts, batches, currentBatchTotalMessageSize, createdLogGroup,
                 createdLogStream, queueOverrun, callbacks, procs, obs>>

Next ==
  \/ Tick
  \/ \E o \in CreateGroupOutcomes : CreateLogGroupReply(o)
  \/ \E o \in CreateStreamOutcomes : CreateLogStreamReply(o)
  \/ \E o \in PutOutcomes : PutLogEventsReply(o)
  \/ \E msg \in formatLog : log(msg)
  \/ close

Spec == Init /\ [][Next]_vars

\* the steps of a transport that creates neither log group nor log stream
NextBytes ==
  \/ Tick
  \/ \E o \in PutOutcomes : PutLogEventsReply(o)
  \/ \E msg \in formatLog : logBytes(msg)
  \/ close

SpecBytes == InitBytes /\ [][NextBytes]_vars

TypeOK ==
  /\ pc \in {"timer", "group", "stream", "put", "off"}
  /\ \A i \in 1..Len(procs) : procs[i].pc \in {"group", "stream", "put"}
  /\ timers \in Nat /\ timeout \in BOOLEAN
  /\ timeout => timers > 0
  /\ (batch # <<>>) <=> (pc \in {"group", "stream", "put"})
  /\ callbacks \subseteq 1..MaxLogs
  /\ Len(admitted) <= MaxLogs

\* ------------------------------------------------------------------ claims
Range(f) == { f[i] : i \in DOMAIN f }

InFlight == IF batch = <<>> THEN <<>> ELSE Ids(batch[1])

\* a remote call is initiated by the step
CallInitiated == pc' \in {"group", "stream", "put"} /\ pc' # pc

\* C1: as long as no fatal error occurred, the records the sink accepted,
\* then the records of the batch in flight, then the records of the queued
\* batches, are exactly the admitted records in their admission order: what
\* was accepted is a prefix of what was admitted, nothing reordered or skipped.
C1_AdmissionOrder ==
  fatalCalls = 0 => admitted = accepted \o InFlight \o Flatten(batches)

\* a send has just failed as retryable while a batch opened during the
\* flight waits behind the batch that was put back, after an earlier success
C1_Witness ==
  /\ fatalCalls = 0 /\ pc = "timer" /\ lastFailed # <<>>
  /\ accepted # <<>>
  /\ Len(batches) >= 2 /\ batches[1] = lastFailed[1]
  /\ Len(batches[1]) < maxBatchNumItems /\ batches[2] # <<>>

\* C2 (as claimed): after onFatalError was called the loop is stopped for
\* good: no timer, no call in flight, and onFatalError was called once.
C2_FatalStopsLoop ==
  fatalCalls >= 1 => (pc = "off" /\ fatalCalls = 1)

\* the step is a PutLogEvents call failing as retryable
RetryablePutFailure == pc = "put" /\ pc' # "put" /\ lastFailed' # <<>>
\* the step issues the first PutLogEvents call after such a failure
NextPutAfterFailure == pc = "timer" /\ pc' = "put" /\ lastFailed # <<>>

\* C3 (as claimed): a send that fails as retryable reports the error to
\* onError, not to onFatalError, puts the batch back at the head of the queue
\* with the records it was sent with, and rearms the timer; the next send
\* carries exactly that batch.

C3_Original ==
  [][ /\ RetryablePutFailure =>
           /\ errors' = Bump({"retry"})
           /\ fatalCalls' = fatalCalls
           /\ batches' = <<batch[1]>> \o batches
           /\ pc' = "timer"
      /\ NextPutAfterFailure => batch' = lastFailed ]_vars

\* C3 (amended): as above, but the timer is rearmed unless close() was called
\* with abandonQueueOnClose, and the next send carries that batch together
\* with the records log() appended to it in the meantime; the records of the
\* failed batch stay at the head of the queue until then.
C3_RetrySameBatch ==
  [][ /\ RetryablePutFailure =>
           /\ errors' = Bump({"retry"})
           /\ fatalCalls' = fatalCalls
           /\ batches' = <<batch[1]>> \o batches
           /\ pc' = (IF stopped /\ abandonQueueOnClose THEN "off" ELSE "timer")
      /\ (lastFailed # <<>> /\ batch = <<>>) =>
           \/ /\ batches' # <<>> /\ IsPrefix(lastFailed[1], batches'[1])
              /\ batch' = <<>>
           \/ /\ batch' # <<>> /\ IsPrefix(lastFailed[1], batch'[1])
              /\ lastFailed' = lastFailed ]_vars

\* a batch is accepted at its third attempt, the first two having failed as
\* retryable
C3_Witness ==
  /\ errors["retry"] = 2 /\ failures = 2 /\ fatalCalls = 0
  /\ ~shouldCreateLogGroup /\ ~shouldCreateLogStream
  /\ accepted # <<>> /\ Len(accepted) = Len(admitted)

\* C4 (as claimed): a promise of log() is resolved only if the sink accepted
\* its record.
C4_ResolvedOnlyAccepted ==
  resolved \subseteq Range(accepted)

\* C5 (as claimed): with no close() and no fatal error, after every tick of
\* the delivery loop the promise of every record the sink has accepted is
\* resolved, whatever is queued behind it.
C5_Original ==
  [][(Tick /\ ~stopped /\ fatalCalls = 0) => Range(accepted) \subseteq resolved']_vars

\* C5 (amended): the promise of an admitted record stays pending until a tick
\* of the delivery loop finds the queue empty, and that tick resolves every
\* pending promise; a tick that finds a batch queued resolves none.  With no
\* fatal error only promises of accepted records are resolved.
C5_ResolvedAtDrain ==
  /\ [](callbacks \cup resolved = Range(admitted) /\ callbacks \cap resolved = {})
  /\ [](fatalCalls = 0 => resolved \subseteq Range(accepted))
  /\ [][ /\ Tick => IF batches = <<>>
                      THEN resolved' = resolved \cup callbacks /\ callbacks' = {}
                      ELSE resolved' = resolved /\ callbacks' = callbacks
         /\ resolved' # resolved => (pc = "timer" /\ batches = <<>>) ]_vars

\* the promise of an accepted record was resolved at a drain and the promise
\* of a record admitted later is pending
C5_Witness ==
  /\ ~stopped /\ fatalCalls = 0
  /\ resolved # {} /\ resolved = Range(accepted)
  /\ callbacks # {} /\ batches # <<>>

\* C6 (as claimed): once close() was called with abandonQueueOnClose, no
\* remote call is initiated and the timer is not armed.
C6_NoCallAfterClose ==
  [][(stopped /\ abandonQueueOnClose) => (~CallInitiated /\ pc' # "timer")]_vars

\* C7 (as claimed): with abandonQueueOnClose = false the delivery loop keeps
\* running after close() while batches are queued and no fatal error occurred.
C7_LoopKeepsRunning ==
  (stopped /\ ~abandonQueueOnClose /\ fatalCalls = 0 /\ batches # <<>>) => pc # "off"

C9_QueueBound ==
  Len(batches) <= maxQueuedBatches

\* the queue holds maxQueuedBatches batches: a batch put back after a failed
\* send at the head and a batch opened by sealing at the end
C9_Witness ==
  /\ maxQueuedBatches = 3 /\ Len(batches) = maxQueuedBatches
  /\ lastFailed # <<>> /\ batches[1] = lastFailed[1]
  /\ batches[Len(batches)] = <<>>

\* the record appended last to the queue bs
LastRecord(bs) ==
  IF bs[Len(bs)] # <<>> THEN bs[Len(bs)][Len(bs[Len(bs)])]
  ELSE bs[Len(bs) - 1][Len(bs[Len(bs) - 1])]

AllBatches == [i \in 1..Len(procs) |-> procs[i].batch] \o batches

\* the step is a log() call that appends a record for the formatted text msg
Admits(msg) == admitted' # admitted /\ (log(msg) \/ logBytes(msg))

\* the text the record appended by the step is made from
Input(msg) == IF lastLog' = "marker" THEN queueOverrunMessage ELSE msg

\* C11: after every log() call that appends a record, the text of every
\* record of every batch has at most maxMessageNumBytes bytes.  A log() call whose text (the formatted text or
\* the overrun message) has more than maxMessageNumBytes minus the suffix
\* length bytes stores the longest prefix of whole characters of the text
\* that fits into that many bytes, followed by the suffix, and calls onError
\* once with the truncation error; a shorter text is stored as it is, with no
\* truncation error.
C11_StoredText ==
  [][\A msg \in formatLog : Admits(msg) =>
       LET input == Input(msg)
           stored == LastRecord(batches').message
           limit == maxMessageNumBytes - truncatedMessageSuffix
       IN  /\ \A i \in 1..Len(AllBatches') : \A j \in 1..Len(AllBatches'[i]) :
                getStringBytesSize(AllBatches'[i][j].message) <= maxMessageNumBytes
           /\ IF input.w * input.n + input.sfx > limit
                THEN /\ stored.w = input.w /\ stored.marker = input.marker
                     /\ stored.w * stored.n <= limit
                     /\ stored.w * (stored.n + 1) > limit
                     /\ stored.sfx = truncatedMessageSuffix
                     /\ errors'["truncating"] = errors["truncating"] + 1
                ELSE /\ stored = input
                     /\ errors'["truncating"] = errors["truncating"]]_vars

\* the queue holds a formatted text of three-byte characters cut and
\* followed by the suffix to exactly maxMessageNumBytes bytes, and an overrun
\* message of four-byte characters cut to 63997 characters (255998 bytes
\* with the suffix); the two truncation errors were reported
C11_Witness ==
  /\ errors["truncating"] >= 2
  /\ \E i, k \in 1..Len(batches) : \E j \in 1..Len(batches[i]) : \E l \in 1..Len(batches[k]) :
       /\ ~batches[i][j].message.marker /\ batches[i][j].message.w = 3
       /\ batches[i][j].message.sfx = 10
       /\ getStringBytesSize(batches[i][j].message) = maxMessageNumBytes
       /\ batches[k][l].message.marker /\ batches[k][l].message.sfx = 10
       /\ batches[k][l].message.n = 63997
       /\ getStringBytesSize(batches[k][l].message) = maxMessageNumBytes - 2

\* C12 (as claimed): with an empty truncatedMessageSuffix a log() call whose
\* formatted text has more than maxMessageNumBytes bytes is rejected: it
\* appends no record and its promise fails.
C12_Original ==
  [][\A msg \in formatLog :
       ( /\ log(msg) \/ logBytes(msg)
         /\ truncatedMessageSuffix = 0
         /\ getStringBytesSize(msg) > maxMessageNumBytes
         /\ logOutcome = "admitted" )
       => (admitted' = admitted /\ batches' = batches /\ lastLog' # "admitted")]_vars

\* C12 (amended): with an empty truncatedMessageSuffix a log() call on an
\* open transport below capacity whose formatted text has more than
\* maxMessageNumBytes bytes is admitted like any other: one record is
\* appended whose text is the longest prefix of whole characters of the
\* formatted text within maxMessageNumBytes bytes, with nothing appended,
\* onError is called once with the truncation error and the promise is
\* left pending or resolved, not rejected.
C12_EmptySuffix ==
  [][\A msg \in formatLog :
       ( /\ log(msg) \/ logBytes(msg)
         /\ truncatedMessageSuffix = 0
         /\ getStringBytesSize(msg) > maxMessageNumBytes
         /\ logOutcome = "admitted" )
       => LET stored == LastRecord(batches').message
              id == Len(admitted) + 1 IN
          /\ admitted' = Append(admitted, id)
          /\ LastRecord(batches').id = id
          /\ stored.w = msg.w /\ stored.sfx = 0 /\ ~stored.marker
          /\ stored.w * stored.n <= maxMessageNumBytes
          /\ stored.w * (stored.n + 1) > maxMessageNumBytes
          /\ errors' = Bump({"truncating"})
          /\ lastLog' = "admitted"
          /\ id \in callbacks' \cup resolved']_vars

\* with an empty suffix a text of 300000 bytes of three-byte characters was
\* admitted, cut to 85333 characters (255999 bytes), and the truncation
\* error reported
C12_Witness ==
  /\ truncatedMessageSuffix = 0 /\ errors["truncating"] >= 1
  /\ lastLog = "admitted"
  /\ \E i \in 1..Len(batches) : \E j \in 1..Len(batches[i]) :
       batches[i][j].message = [w |-> 3, n |-> 85333, sfx |-> 0, marker |-> FALSE]

RECURSIVE BytesOf(_)
\* the total message byte size of the records b
BytesOf(b) == IF b = <<>> THEN 0
              ELSE getStringBytesSize(Head(b).message) + BytesOf(Tail(b))

\* the records of b but the last
Front(b) == SubSeq(b, 1, Len(b) - 1)

\* the item limit in force: a run of the byte arithmetic has the formatter
\* of BytesFormatLogs
ItemLimit == IF formatLog \in BytesFormatLogs THEN BytesBatchNumItems ELSE maxBatchNumItems

\* C13 (as claimed): every batch, queued or in flight, has at most
\* maxBatchNumItems records and a total message byte size of at most
\* maxBatchNumBytes minus actualMaxMessageNumBytes.
C13_Original ==
  \A i \in 1..Len(AllBatches) :
    /\ Len(AllBatches[i]) <= ItemLimit
    /\ BytesOf(AllBatches[i]) <= maxBatchNumBytes - actualMaxMessageNumBytes

\* C13 (amended): every batch, queued or in flight, has at most
\* maxBatchNumItems records, and its records but the last weigh less than
\* maxBatchNumBytes minus actualMaxMessageNumBytes: the byte limit is tested
\* after a record is appended, so the last record of a batch comes on top.
\* The running total currentBatchTotalMessageSize is the byte size of the
\* last batch of the queue.
C13_BatchLimits ==
  /\ \A i \in 1..Len(AllBatches) :
       /\ Len(AllBatches[i]) <= ItemLimit
       /\ AllBatches[i] # <<>> =>
            BytesOf(Front(AllBatches[i])) < maxBatchNumBytes - actualMaxMessageNumBytes
  /\ batches # <<>> => currentBatchTotalMessageSize = BytesOf(batches[Len(batches)])

\* a batch was sealed by the byte limit before the item limit: four records
\* weighing more than maxBatchNumBytes minus actualMaxMessageNumBytes, with
\* the next batch opened behind it
C13_Witness ==
  /\ Len(batches) >= 2
  /\ \E i \in 1..(Len(batches) - 1) :
       /\ Len(batches[i]) = 4 /\ Len(batches[i]) < ItemLimit
       /\ BytesOf(batches[i]) > maxBatchNumBytes - actualMaxMessageNumBytes

\* C14: every batch handed to the sink in a PutLogEvents call has a total
\* message byte size of at most maxBatchNumBytes.
C14_SentBytes ==
  \A i \in 1..Len(procs) :
    procs[i].pc = "put" => BytesOf(procs[i].batch) <= maxBatchNumBytes

\* C15: a provisioning call that fails with ResourceAlreadyExistsException
\* counts as a success: the flag of the resource becomes true, onError is not
\* called, and the iteration goes on to the next call with its batch.
C15_AlreadyExists ==
  [][ /\ \A i \in 1..Len(procs) :
           CreateLogGroupReplyTo(i, "ResourceAlreadyExistsException") =>
             /\ createdLogGroup' /\ errors' = errors
             /\ Len(procs') = Len(procs) /\ procs'[i].batch = procs[i].batch
             /\ procs'[i].pc \in {"stream", "put"}
      /\ \A i \in 1..Len(procs) :
           CreateLogStreamReplyTo(i, "ResourceAlreadyExistsException") =>
             /\ createdLogStream' /\ errors' = errors
             /\ Len(procs') = Len(procs) /\ procs'[i].batch = procs[i].batch
             /\ procs'[i].pc = "put" ]_vars

\* C16: a send that fails with DataAlreadyAcceptedException is treated as
\* delivered: the batch is not put back into the queue, and neither onError
\* nor onFatalError is called.
C16_AlreadyAccepted ==
  [][\A i \in 1..Len(procs) :
       PutLogEventsReplyTo(i, "DataAlreadyAcceptedException") =>
         /\ batches' = batches
         /\ errors' = errors /\ fatalCalls' = fatalCalls]_vars

\* C17: the pending waiters are called only by a step that finds no batch
\* in the queue, and then all of them are called and the set is cleared; a
\* waiter that was called is never pending again, so it is called at most
\* once; a step that finds a batch in the queue leaves every waiter pending,
\* and the only other change of the set is log() adding its own waiter.
C17_Waiters ==
  /\ [](callbacks \cap resolved = {})
  /\ [][ /\ resolved \subseteq resolved'
         /\ resolved' # resolved =>
              /\ resolved' = resolved \cup callbacks
              /\ callbacks' = {}
              /\ Tick /\ batches = <<>>
         /\ (Tick /\ batches = <<>>) =>
              (resolved' = resolved \cup callbacks /\ callbacks' = {})
         /\ (Tick /\ batches # <<>>) => callbacks' = callbacks
         /\ (callbacks' # callbacks /\ resolved' = resolved) =>
              /\ admitted' # admitted
              /\ callbacks' = callbacks \cup {Len(admitted')}
              /\ batches' # <<>> ]_vars

\* after a drain that called the first waiters, a waiter registered later
\* is still pending although the timer has fired since: the tick found its
\* batch in the queue and is sending it
C17_Witness ==
  /\ resolved # {} /\ callbacks # {}
  /\ \A i \in callbacks : \A j \in resolved : i > j
  /\ pc = "put" /\ \E i \in callbacks : i \in Range(InFlight)

\* C18: at most one invocation of processQueue is suspended at a remote
\* call, so at most one remote call is outstanding; at most one timer is
\* armed, and none while an invocation is active; the handle in the
\* variable timeout is that of the armed timer.
C18_SingleLoop ==
  /\ Len(procs) <= 1
  /\ timers <= 1
  /\ timers > 0 => procs = <<>>
  /\ timeout <=> timers = 1

\* after close() with abandonQueueOnClose = false and a failed attempt the
\* loop is sending again: one invocation active, no timer armed
C18_Witness ==
  /\ stopped /\ ~abandonQueueOnClose /\ errors["retry"] >= 1
  /\ Len(procs) = 1 /\ procs[1].pc = "put" /\ timers = 0

\* a PutLogEvents call returns with rejectedLogEventsInfo set
PartialRejection(i) == PutLogEventsReplyTo(i, "rejectedLogEventsInfo")

\* C19 (as claimed): after a partial rejection the batch is consumed as on
\* success, onError is called once with the rejected-events error,
\* onFatalError is not called, and the loop rearms its timer.
C19_Original ==
  [][\A i \in 1..Len(procs) : PartialRejection(i) =>
       /\ batches' = batches
       /\ accepted' = accepted \o Ids(procs[i].batch)
       /\ errors' = Bump({"rejected"})
       /\ fatalCalls' = fatalCalls
       /\ timers' = timers + 1]_vars

\* C19 (amended): after a partial rejection the batch is consumed as on
\* success (it is not put back into the queue and none of its records is
\* queued), onError is called once with the rejected-events error,
\* onFatalError is not called, and the timer is rearmed unless close() was
\* called with abandonQueueOnClose = true, in which case the loop ends.
C19_PartialRejection ==
  [][\A i \in 1..Len(procs) : PartialRejection(i) =>
       /\ batches' = batches
       /\ Range(Ids(procs[i].batch)) \cap Range(Flatten(batches')) = {}
       /\ accepted' = accepted \o Ids(procs[i].batch)
       /\ errors' = Bump({"rejected"})
       /\ fatalCalls' = fatalCalls
       /\ procs' = Without(i)
       /\ timers' = IF stopped /\ abandonQueueOnClose THEN timers
                    ELSE timers + 1]_vars

\* a batch was partially rejected: its records count as accepted, the one
\* error reported is the rejected-events error, and the timer is armed
C19_Witness ==
  /\ errors["rejected"] = 1 /\ errors["retry"] = 0 /\ fatalCalls = 0
  /\ accepted # <<>> /\ timers = 1 /\ procs = <<>>

\* C20: every PutLogEvents call carries at least one record.
C20_NoEmptySend ==
  \A i \in 1..Len(procs) : procs[i].pc = "put" => procs[i].batch # <<>>

\* C21: with abandonQueueOnClose = true, once close() was called no waiter
\* is called or added and no promise is resolved, whatever the remote call
\* in flight at close time returns; no timer is armed and no invocation of
\* processQueue starts.
C21_PendingForever ==
  [][(stopped /\ abandonQueueOnClose) =>
       /\ resolved' = resolved /\ callbacks' = callbacks
       /\ timers = 0 /\ timers' = 0
       /\ Len(procs') <= Len(procs)]_vars

\* after close() with abandonQueueOnClose the loop has ended with promises
\* pending, among them that of a record the sink accepted, while promises
\* of earlier records were resolved before close()
C21_Witness ==
  /\ stopped /\ abandonQueueOnClose
  /\ procs = <<>> /\ timers = 0
  /\ resolved # {} /\ callbacks \cap Range(accepted) # {}

====
